---- MODULE Spec2Model ----
(***************************************************************************)
(* NotifyFlow: the asynchronous dispatch pipeline.                         *)
(*                                                                         *)
(*   POST /api/notifications   rate limit -> persist "pending" -> enqueue  *)
(*   notificationWorker        fetch -> NotificationService.deliver        *)
(*   POST /api/notifications/[id]/retry      NotificationService.retry     *)
(*   PrismaNotificationRepository            tenant-scoped store           *)
(*   rateLimit.ts              Redis fixed-window counter + memory fallback*)
(*                                                                         *)
(* Every database query, queue call and channel send is one step; the API  *)
(* server and the worker are separate processes, so their steps interleave.*)
(***************************************************************************)
EXTENDS Integers, Sequences, FiniteSets, TLC

\* ---------------------------------------------------------------- bounds
\* POST requests issued in one run (each persists at most one notification).
MaxPosts == 1
\* isRateLimited calls explored per counter value (INCR has no upper limit).
MaxCalls == 22
\* Clock: Date.now() in seconds, advanced in steps of TickStep up to MaxTime.
TickStep == 30
MaxTime == 90
\* withCorrelationId calls explored in one process (each may draw a UUID).
MaxRuns == 4

\* ------------------------------------------------------ program constants
MAX == 20
WINDOW_S == 60
Attempts == 3
Concurrency == 5

Users == {"u1", "u2"}
\* The tenant whose requests create notifications; any tenant may call the
\* retry and delete endpoints.
Posters == {"u1"}
\* A JavaScript argument that was not passed: Prisma drops a where-field
\* whose value is undefined.
Undefined == "undefined"
Channels == {"email", "webhook", "in-app"}
Statuses == {"pending", "sent", "failed"}
Ids == 1..MaxPosts
\* Ids a caller may name: the allocated ones and one that never exists.
IdArgs == Ids \cup {0}
Keys == {"ip1"}
\* req.headers.get("x-correlation-id"): null when the header is absent.
NoHeader == "null"
Headers == {NoHeader, "corr-1"}
\* The pipeline and shutdown specifications explore requests without the
\* header; CorrSpec explores both kinds.
PostedHeaders == {NoHeader}

\* crypto.randomUUID() of the n-th request
randomUUID(n) == "uuid-" \o ToString(n)

\* (faulty variant: the header is ignored)
withCorrelationIdBad(idFromHeader, n) == randomUUID(n)

\* withCorrelationId: const id = idFromHeader ?? crypto.randomUUID()
withCorrelationId(idFromHeader, n) ==
    IF idFromHeader = NoHeader THEN randomUUID(n) ELSE idFromHeader

\* ------------------------------------------------------------ the store
\* correlationId and readAt are nullable columns ("-": null).
NoRow == [present |-> FALSE, userId |-> "-", channel |-> "-", status |-> "-",
          correlationId |-> "-", readAt |-> "-"]

Row(u, ch, s) == [present |-> TRUE, userId |-> u, channel |-> ch, status |-> s,
                  correlationId |-> "-", readAt |-> "-"]

\* (faulty variant: the tenant filter is dropped)
WhereBad(st, id, userId) ==
    /\ id \in DOMAIN st
    /\ st[id].present

\* where: { id, userId }
Where(st, id, userId) ==
    /\ id \in DOMAIN st
    /\ st[id].present
    /\ (userId = Undefined \/ st[id].userId = userId)

\* prisma.notification.updateMany({ where: { id, userId }, data: { status } })
updateManyCount(st, id, userId) == IF Where(st, id, userId) THEN 1 ELSE 0

\* (faulty variant: data carries the channel as well)
updateManyChannel(st, id, userId, status) ==
    IF Where(st, id, userId)
    THEN [st EXCEPT ![id].status = status, ![id].channel = "in-app"] ELSE st

\* (faulty variant: the write is narrowed to rows still pending, the count is not)
updateManyBad(st, id, userId, status) ==
    IF Where(st, id, userId) /\ st[id].status = "pending"
    THEN [st EXCEPT ![id].status = status] ELSE st

updateMany(st, id, userId, status) ==
    IF Where(st, id, userId) THEN [st EXCEPT ![id].status = status] ELSE st

\* prisma.notification.findFirst({ where: { id, userId } })
findFirst(st, id, userId) == IF Where(st, id, userId) THEN st[id] ELSE NoRow

\* prisma.notification.deleteMany({ where: { id, userId } })
deleteMany(st, id, userId) ==
    IF Where(st, id, userId) THEN [st EXCEPT ![id] = NoRow] ELSE st

\* Result<Notification, DomainError>
Ok(row) == [ok |-> TRUE, code |-> "OK", value |-> row]
Fail(c) == [ok |-> FALSE, code |-> c, value |-> NoRow]

\* PrismaNotificationRepository.updateStatus as one call: updateMany, then
\* findFirst of the updated record.  dbOk1 / dbOk2: whether each query runs.
updateStatus(st, id, status, userId, dbOk1, dbOk2) ==
    IF ~dbOk1 THEN [store |-> st, res |-> Fail("DATABASE_ERROR")]
    ELSE IF updateManyCount(st, id, userId) = 0
         THEN [store |-> st, res |-> Fail("NOTIFICATION_NOT_FOUND")]
    ELSE LET st2 == updateMany(st, id, userId, status) IN
         [store |-> st2,
          res |-> IF ~dbOk2 THEN Fail("DATABASE_ERROR")
                  ELSE IF ~Where(st2, id, userId) THEN Fail("NOTIFICATION_NOT_FOUND")
                  ELSE Ok(findFirst(st2, id, userId))]

\* PrismaNotificationRepository.findById / findByIdInternal
\* (faulty variant: a missing row is returned as an empty record)
findByIdBad(st, id, userId, dbOk) ==
    IF ~dbOk THEN Fail("DATABASE_ERROR")
    ELSE Ok(findFirst(st, id, userId))

findById(st, id, userId, dbOk) ==
    IF ~dbOk THEN Fail("DATABASE_ERROR")
    ELSE IF ~Where(st, id, userId) THEN Fail("NOTIFICATION_NOT_FOUND")
    ELSE Ok(findFirst(st, id, userId))

\* PrismaNotificationRepository.delete
\* (faulty variant: a delete that matches no row reports success)
deleteBad(st, id, userId, dbOk) ==
    IF ~dbOk THEN [store |-> st, res |-> Fail("DATABASE_ERROR")]
    ELSE [store |-> deleteMany(st, id, userId), res |-> Ok(NoRow)]

delete(st, id, userId, dbOk) ==
    IF ~dbOk THEN [store |-> st, res |-> Fail("DATABASE_ERROR")]
    ELSE IF ~Where(st, id, userId)
         THEN [store |-> st, res |-> Fail("NOTIFICATION_NOT_FOUND")]
    ELSE [store |-> deleteMany(st, id, userId), res |-> Ok(NoRow)]

\* prisma.notification.updateMany({ where: { readAt: null, userId },
\* data: { readAt: new Date() } }); a failure of the query is a DatabaseError.
\* (faulty variant: the status is written with it)
markAllReadBad(st, userId, dbOk) ==
    IF ~dbOk THEN [store |-> st, res |-> Fail("DATABASE_ERROR")]
    ELSE [store |-> [i \in DOMAIN st |->
                        IF Where(st, i, userId) /\ st[i].readAt = "-"
                        THEN [st[i] EXCEPT !.readAt = "read", !.status = "sent"]
                        ELSE st[i]],
          res |-> Ok(NoRow)]

markAllRead(st, userId, dbOk) ==
    IF ~dbOk THEN [store |-> st, res |-> Fail("DATABASE_ERROR")]
    ELSE [store |-> [i \in DOMAIN st |->
                        IF Where(st, i, userId) /\ st[i].readAt = "-"
                        THEN [st[i] EXCEPT !.readAt = "read"] ELSE st[i]],
          res |-> Ok(NoRow)]

\* prisma.notification.updateMany({ where: { readAt: { not: null }, userId },
\* data: { readAt: null } })
markAllUnread(st, userId, dbOk) ==
    IF ~dbOk THEN [store |-> st, res |-> Fail("DATABASE_ERROR")]
    ELSE [store |-> [i \in DOMAIN st |->
                        IF Where(st, i, userId) /\ st[i].readAt # "-"
                        THEN [st[i] EXCEPT !.readAt = "-"] ELSE st[i]],
          res |-> Ok(NoRow)]

\* PrismaNotificationRepository.findAll: findMany without a where clause;
\* the ids of the rows returned.
\* (faulty variant: nothing is returned)
findAllBad(st) == {}

findAll(st) == {i \in DOMAIN st : st[i].present}

\* DomainError.statusCode, the status the routes answer with
statusCode(code) ==
    CASE code = "OK" -> 200
      [] code = "NOTIFICATION_NOT_FOUND" -> 404
      [] code = "CHANNEL_UNAVAILABLE" -> 503
      [] OTHER -> 500

\* ------------------------------------------------------- the rate limiter
Buckets == 0..(MaxTime \div WINDOW_S)

\* redisKey: Math.floor(Date.now() / WINDOW_MS)
bucketOf(t) == t \div WINDOW_S

NoEntry == [count |-> 0, resetAt |-> 0]

\* memIsRateLimited(key) at time t on memStore m
\* (faulty variant: entry.count >= MAX)
memIsRateLimitedBad(m, key, t) ==
    IF m[key].count = 0 \/ t >= m[key].resetAt
    THEN [mem |-> [m EXCEPT ![key] = [count |-> 1, resetAt |-> t + WINDOW_S]],
          limited |-> FALSE]
    ELSE [mem |-> [m EXCEPT ![key].count = @ + 1],
          limited |-> m[key].count + 1 >= MAX]

memIsRateLimited(m, key, t) ==
    IF m[key].count = 0 \/ t >= m[key].resetAt
    THEN [mem |-> [m EXCEPT ![key] = [count |-> 1, resetAt |-> t + WINDOW_S]],
          limited |-> FALSE]
    ELSE [mem |-> [m EXCEPT ![key].count = @ + 1],
          limited |-> m[key].count + 1 > MAX]

\* memGetState(key)
memGetState(m, key, t) ==
    IF m[key].count = 0 \/ t >= m[key].resetAt
    THEN [remaining |-> MAX, resetAt |-> t + WINDOW_S]
    ELSE [remaining |-> IF MAX - m[key].count > 0 THEN MAX - m[key].count ELSE 0,
          resetAt |-> m[key].resetAt]

\* redis.incr(rk) followed, on count === 1, by redis.expire(rk, WINDOW_S + 1)
redisIncr(r, key, t) ==
    LET rk == <<key, bucketOf(t)>>
        c  == r[rk].count + 1
    IN  [r EXCEPT ![rk] = [count |-> c,
                           exp   |-> IF c = 1 THEN t + WINDOW_S + 1 ELSE @.exp]]

\* (faulty variant: count >= MAX)
isRateLimitedBad(r, m, key, t, up) ==
    IF up
    THEN [redis |-> redisIncr(r, key, t), mem |-> m,
          limited |-> redisIncr(r, key, t)[<<key, bucketOf(t)>>].count >= MAX]
    ELSE [redis |-> r, mem |-> memIsRateLimited(m, key, t).mem,
          limited |-> memIsRateLimited(m, key, t).limited]

\* isRateLimited(key): Redis when reachable, the in-memory store otherwise
isRateLimited(r, m, key, t, up) ==
    IF up
    THEN [redis |-> redisIncr(r, key, t), mem |-> m,
          limited |-> redisIncr(r, key, t)[<<key, bucketOf(t)>>].count > MAX]
    ELSE [redis |-> r, mem |-> memIsRateLimited(m, key, t).mem,
          limited |-> memIsRateLimited(m, key, t).limited]

\* getRateLimitState(key)
getRateLimitState(r, m, key, t, up) ==
    IF up
    THEN LET rk    == <<key, bucketOf(t)>>
             count == r[rk].count
             ttl   == IF r[rk].count > 0 /\ r[rk].exp - t > 0
                      THEN r[rk].exp - t ELSE WINDOW_S
         IN  [remaining |-> IF MAX - count > 0 THEN MAX - count ELSE 0,
              resetAt |-> t + ttl]
    ELSE memGetState(m, key, t)

\* ------------------------------------------------------------- the state
VARIABLES
    store,      \* notification table: id -> row
    nextId,     \* next id the database assigns
    setup,      \* channel wiring and configuration, fixed at process start
    callers,    \* isRateLimited calls in flight, and the history of their
                \* counter observations
    als,        \* correlationStorage: the store of each execution context
    worker,     \* the worker process: running, closing (signalled) or exited
    jobs,       \* BullMQ jobs, one per enqueued notification (job j is for id j)
    post,       \* the POST /api/notifications request in flight
    api,        \* the retry / delete request in flight
    postResp,   \* response the create endpoint gave for a persisted id
    corrLog,    \* history: X-Correlation-ID of the request that created an
                \* id, and the correlationId of its 202 response
    posts,      \* POST requests issued so far
    started,    \* history: attempts of job j the worker has started
    sends,      \* history: channel.send invocations in job j's attempt in progress
    lastWrite,  \* history: status of the most recently committed write
    now,        \* Date.now(), in seconds
    redisUp,    \* whether Redis answers
    redis,      \* Redis counters: <<key, bucket>> -> [count, exp]
    mem,        \* memStore: key -> [count, resetAt]
    admitLog,   \* history: admissions per key in the last WINDOW_S seconds
    win,        \* history: calls per key in the limiter's current window
    lastCall    \* history: the last isRateLimited / repository call

pipeVars == <<store, nextId, setup, callers, als, worker, jobs, post, api, postResp, corrLog, posts,
              started, sends, lastWrite>>
rateVars == <<now, redisUp, redis, mem, admitLog, win>>
vars == <<store, nextId, setup, callers, als, worker, jobs, post, api, postResp, corrLog, posts, started,
          sends, lastWrite, now, redisUp, redis, mem, admitLog, win, lastCall>>

\* container.ts registers all three channels; the unit tests wire a service
\* with the email channel only.  Availability follows the environment.
Setups ==
    { [registered |-> Channels, emailOk |-> TRUE, webhookOk |-> TRUE],
      [registered |-> Channels, emailOk |-> FALSE, webhookOk |-> FALSE],
      [registered |-> {"email"}, emailOk |-> TRUE, webhookOk |-> TRUE] }

\* this.channels.find((c) => c.name === notification.channel)
channelFound(ch) == ch \in setup.registered

\* EmailChannel / WebhookChannel / InAppChannel .isAvailable()
\* (faulty variant: the configuration is not consulted)
isAvailableBad(ch) == TRUE

isAvailable(ch) ==
    CASE ch = "email"   -> setup.emailOk
      [] ch = "webhook" -> setup.webhookOk
      [] OTHER          -> TRUE

\* Outcomes channel.send can have: the in-app send is a no-op that succeeds,
\* email and webhook depend on the transport / the target's answer.
\* (faulty variant: the in-app send can fail too)
sendOutcomesBad(ch) == {TRUE, FALSE}

sendOutcomes(ch) == IF ch = "in-app" THEN {TRUE} ELSE {TRUE, FALSE}

\* The error a failed attempt threw (BullMQ: job.failedReason): its code and
\* the call that produced it.
NoError == [code |-> "-", by |-> "-"]

\* correlationId: job.data.correlationId; ctx: the correlation context the
\* handler runs in (getCorrelationId()), "-" outside a handler.
NoJob == [state |-> "none", attemptsMade |-> 0, pc |-> "-", channel |-> "-",
          nchan |-> "-", chanOk |-> FALSE, sendOk |-> FALSE,
          failedReason |-> NoError, correlationId |-> "-", ctx |-> "-"]

NoCorr == [header |-> "-", response |-> "-"]

IdlePost == [pc |-> "idle", nid |-> 0, userId |-> "-", channel |-> "-",
             correlationId |-> "-"]
IdleApi  == [pc |-> "idle", op |-> "-", id |-> 0, userId |-> "-"]
NoCall   == [op |-> "none", key |-> "-", id |-> 0, userId |-> "-",
             status |-> "-", backend |-> "-", limited |-> FALSE,
             ran |-> FALSE, code |-> "-", retryAfter |-> 0, value |-> NoRow,
             pre |-> <<>>, rows |-> {}, http |-> 0]

\* Calls of a key in the Redis bucket rb (rc of them, rp: all answered by
\* Redis) and in the in-memory entry's window (mc of them, mp: all answered
\* by the in-memory store).
NoWindow == [rb |-> 0, rc |-> 0, rp |-> TRUE, mc |-> 0, mp |-> TRUE]

RateInit ==
    /\ now = 0
    /\ redisUp = TRUE
    /\ redis = [rk \in Keys \X Buckets |-> [count |-> 0, exp |-> 0]]
    /\ mem = [k \in Keys |-> NoEntry]
    /\ admitLog = [k \in Keys |-> [t \in {} |-> 0]]
    /\ win = [k \in Keys |-> NoWindow]

\* Concurrent callers of isRateLimited (requests being served at once).
Procs == {"r1", "r2"}

\* callers.proc[p]: position of p's call, the bucket in its redisKey and the
\* value its INCR returned.  callers.hist[b], for the key of bucket b: obs /
\* vals the number and the set of values INCR returned since the key was
\* (re)created, adm the calls that returned false since then; obsAll,
\* valsAll, admAll the same over the whole run.
IdleCaller == [pc |-> "idle", rb |-> 0, count |-> 0]
NoHist == [obs |-> 0, vals |-> {}, adm |-> 0,
           obsAll |-> 0, valsAll |-> {}, admAll |-> 0]
NoCallers == [proc |-> [p \in Procs |-> IdleCaller],
              hist |-> [b \in Buckets |-> NoHist]]

\* Execution contexts sharing one process: two requests and a worker job.
Contexts == {"req1", "req2", "job1"}

\* als.store[c]: the value correlationStorage.run bound for context c ("-":
\* none); als.last: the value bound most recently in the process; als.runs:
\* withCorrelationId calls so far; als.got[c]: what getCorrelationId() last
\* returned in c.
NoAls == [store |-> [c \in Contexts |-> "-"], last |-> "-", runs |-> 0,
          got |-> [c \in Contexts |-> "-"]]

PipeInit ==
    /\ callers = NoCallers
    /\ als = NoAls
    /\ store = [i \in Ids |-> NoRow]
    /\ nextId = 1
    /\ worker = "running"
    /\ jobs = [i \in Ids |-> NoJob]
    /\ post = IdlePost
    /\ api = IdleApi
    /\ postResp = [i \in Ids |-> "none"]
    /\ corrLog = [i \in Ids |-> NoCorr]
    /\ posts = 0
    /\ started = [i \in Ids |-> 0]
    /\ sends = [i \in Ids |-> 0]
    /\ lastWrite = [i \in Ids |-> "-"]

Init ==
    /\ PipeInit
    /\ setup \in Setups
    /\ RateInit
    /\ lastCall = NoCall

\* ------------------------------------------------- the create endpoint
\* Admissions of key k still inside the sliding window that ends at t.
LogAdd(log, t) ==
    IF t \in DOMAIN log THEN [log EXCEPT ![t] = @ + 1]
    ELSE [x \in DOMAIN log \cup {t} |-> IF x = t THEN 1 ELSE log[x]]

LogPrune(log, t) == [x \in {y \in DOMAIN log : y > t - WINDOW_S} |-> log[x]]

windowAfter(w, m, key, t, up) ==
    LET sameBucket == w.rc > 0 /\ w.rb = bucketOf(t)
        memLive    == m[key].count > 0 /\ t < m[key].resetAt
    IN  [rb |-> bucketOf(t),
         rc |-> IF sameBucket THEN w.rc + 1 ELSE 1,
         rp |-> IF sameBucket THEN w.rp /\ up ELSE up,
         mc |-> IF memLive THEN w.mc + 1 ELSE IF up THEN 0 ELSE 1,
         mp |-> IF memLive THEN w.mp /\ ~up ELSE TRUE]

\* if (await isRateLimited(ip)) { const { resetAt } = await
\* getRateLimitState(ip); return 429 with Retry-After: resetAt - Date.now() }
\* hist names the history kept with the call: "window" (calls in the
\* limiter's own window) or "log" (admissions in the sliding window); http
\* is the status the request is answered with when it is admitted and goes
\* no further (0: none recorded).
RateStep(key, hist, http) ==
    LET rl == isRateLimited(redis, mem, key, now, redisUp) IN
    /\ redis[<<key, bucketOf(now)>>].count < MaxCalls
    /\ mem[key].count < MaxCalls
    /\ redis' = rl.redis
    /\ mem' = rl.mem
    /\ admitLog' = IF rl.limited \/ hist # "log" THEN admitLog
                   ELSE [admitLog EXCEPT ![key] = LogAdd(@, now)]
    /\ win' = IF hist # "window" THEN win
              ELSE [win EXCEPT ![key] = windowAfter(@, mem, key, now, redisUp)]
    /\ lastCall' = [NoCall EXCEPT !.op = "isRateLimited", !.key = key,
                       !.backend = IF redisUp THEN "redis" ELSE "memory",
                       !.limited = rl.limited,
                       !.code = IF rl.limited THEN "429" ELSE "-",
                       !.http = IF rl.limited THEN 429 ELSE http,
                       !.retryAfter =
                           IF rl.limited
                           THEN getRateLimitState(rl.redis, rl.mem, key, now,
                                                  redisUp).resetAt - now
                           ELSE 0]
    /\ UNCHANGED <<now, redisUp>>

\* POST /api/notifications: rate limit, validation, createPending.
\* `valid` is the outcome of the schema validation of the body, `dbOk`
\* whether prisma.notification.create succeeds.
PostCreate(u, ch, key, h, valid, dbOk) ==
    LET rl  == isRateLimited(redis, mem, key, now, redisUp)
        cid == withCorrelationId(h, posts + 1)
    IN
    /\ post.pc = "idle"
    /\ posts < MaxPosts
    /\ RateStep(key, "window",
                IF ~valid THEN 422
                ELSE IF ~dbOk THEN statusCode("DATABASE_ERROR") ELSE 0)
    /\ posts' = posts + 1
    /\ IF rl.limited \/ ~valid \/ ~dbOk
       THEN \* 429, 422 or the create failure's status: nothing persisted
            UNCHANGED <<store, nextId, post, lastWrite, corrLog>>
       ELSE /\ store' = [store EXCEPT ![nextId] =
                            [Row(u, ch, "pending") EXCEPT !.correlationId = cid]]
            /\ lastWrite' = [lastWrite EXCEPT ![nextId] = "pending"]
            /\ nextId' = nextId + 1
            /\ post' = [pc |-> "created", nid |-> nextId, userId |-> u,
                        channel |-> ch, correlationId |-> cid]
            /\ corrLog' = [corrLog EXCEPT ![nextId].header = h]
    /\ UNCHANGED <<setup, callers, als, worker, jobs, api, postResp, started, sends>>

\* (faulty variant: 202 also when the job could not be added)
PostEnqueueBad(qOk) ==
    /\ post.pc = "created"
    /\ jobs' = IF qOk
               THEN [jobs EXCEPT ![post.nid] =
                        [NoJob EXCEPT !.state = "waiting",
                                      !.channel = post.channel,
                                      !.correlationId = post.correlationId]]
               ELSE jobs
    /\ postResp' = [postResp EXCEPT ![post.nid] = "202"]
    /\ corrLog' = [corrLog EXCEPT ![post.nid].response = post.correlationId]
    /\ post' = IdlePost
    /\ UNCHANGED <<store, nextId, setup, callers, als, worker, api, posts,
                   started, sends, lastWrite, rateVars, lastCall>>

\* notificationQueue.add("send", {...}): 202 on success, rollback otherwise.
PostEnqueue(qOk) ==
    /\ post.pc = "created"
    /\ IF qOk
       THEN /\ jobs' = [jobs EXCEPT ![post.nid] =
                           [NoJob EXCEPT !.state = "waiting",
                                         !.channel = post.channel,
                                         !.correlationId = post.correlationId]]
            /\ postResp' = [postResp EXCEPT ![post.nid] = "202"]
            /\ corrLog' = [corrLog EXCEPT ![post.nid].response =
                                                post.correlationId]
            /\ post' = IdlePost
       ELSE /\ post' = [post EXCEPT !.pc = "rollback"]
            /\ UNCHANGED <<jobs, postResp, corrLog>>
    /\ UNCHANGED <<store, nextId, setup, callers, als, worker, api, posts, started, sends,
                   lastWrite, rateVars, lastCall>>

\* Rollback, first query: notificationService.softDelete(notification.id,
\* userId).  softDelete takes the id only and calls
\* writer.updateStatus(id, "failed"); this is that call's updateMany.
PostRollback(dbOk) ==
    /\ post.pc = "rollback"
    /\ IF dbOk /\ updateManyCount(store, post.nid, Undefined) > 0
       THEN /\ store' = updateMany(store, post.nid, Undefined, "failed")
            /\ lastWrite' = [lastWrite EXCEPT ![post.nid] = "failed"]
            /\ post' = [post EXCEPT !.pc = "rollbackRead"]
            /\ UNCHANGED postResp
       ELSE \* deleteResult is a failure: logged, 503 all the same
            /\ postResp' = [postResp EXCEPT ![post.nid] = "503_rollback_failed"]
            /\ post' = IdlePost
            /\ UNCHANGED <<store, lastWrite>>
    /\ UNCHANGED <<nextId, setup, callers, als, worker, jobs, api, corrLog, posts, started,
                   sends, rateVars, lastCall>>

\* Rollback, second query (updateStatus's findFirst), then 503.
PostRollbackRead(dbOk) ==
    /\ post.pc = "rollbackRead"
    /\ postResp' = [postResp EXCEPT ![post.nid] =
                       IF findById(store, post.nid, Undefined, dbOk).ok
                       THEN "503" ELSE "503_rollback_failed"]
    /\ post' = IdlePost
    /\ UNCHANGED <<store, nextId, setup, callers, als, worker, jobs, api, corrLog, posts,
                   started, sends, lastWrite, rateVars, lastCall>>

\* ------------------------------------------------------ queue and worker
Active == {j \in Ids : jobs[j].state = "active"}

\* BullMQ, defaultJobOptions.attempts: a thrown attempt is counted; the job
\* is re-queued (after the backoff delay) while attempts remain, otherwise it
\* is moved to the failed set.
\* (faulty variant: off by one)
attemptsLeftBad(made) == made <= Attempts

attemptsLeft(made) == made < Attempts

\* (faulty variant: the failed attempt is not counted)
jobThrownBad(job, err) ==
    [job EXCEPT !.state = IF attemptsLeft(job.attemptsMade + 1)
                          THEN "waiting" ELSE "failed",
                !.pc = "-", !.nchan = "-", !.chanOk = FALSE, !.sendOk = FALSE,
                !.ctx = "-", !.failedReason = err]

\* throw new Error(result.error.message)
jobThrown(job, err) ==
    [job EXCEPT !.attemptsMade = @ + 1,
                !.state = IF attemptsLeft(job.attemptsMade + 1)
                          THEN "waiting" ELSE "failed",
                !.pc = "-", !.nchan = "-", !.chanOk = FALSE, !.sendOk = FALSE,
                !.ctx = "-", !.failedReason = err]

jobCompleted(job) ==
    [job EXCEPT !.attemptsMade = @ + 1, !.state = "completed",
                !.pc = "-", !.nchan = "-", !.chanOk = FALSE, !.sendOk = FALSE,
                !.ctx = "-", !.failedReason = NoError]

\* (faulty variant: a send that succeeded hides the failure of the write)
deliverResultBad(chanOk, sendOk, updCode) ==
    IF ~chanOk THEN [code |-> "CHANNEL_UNAVAILABLE", by |-> "deliver"]
    ELSE IF ~sendOk THEN [code |-> "CHANNEL_UNAVAILABLE", by |-> "send"]
    ELSE [code |-> "OK", by |-> "updateStatus"]

\* What deliver returns, given the code of its updateStatus call's result:
\* fail(new ChannelUnavailable(..)) when the channel is missing or
\* unavailable, sendResult when the send failed, updateResult otherwise.
deliverResult(chanOk, sendOk, updCode) ==
    IF ~chanOk THEN [code |-> "CHANNEL_UNAVAILABLE", by |-> "deliver"]
    ELSE IF ~sendOk THEN [code |-> "CHANNEL_UNAVAILABLE", by |-> "send"]
    ELSE [code |-> updCode, by |-> "updateStatus"]

\* The handler: throw when deliver's result is a failure, return otherwise.
\* (faulty variant: a failure of the status write is logged, not thrown)
handlerEndsBad(job, res) ==
    IF res.by = "updateStatus" THEN jobCompleted(job) ELSE jobThrown(job, res)

handlerEnds(job, res) ==
    IF res.code = "OK" THEN jobCompleted(job) ELSE jobThrown(job, res)

\* deliver, lines 57: const finalStatus = sendResult.ok ? "sent" : "failed"
\* (faulty variant: the send result is ignored)
finalStatusBad(chanOk, sendOk) == IF chanOk THEN "sent" ELSE "failed"

\* (faulty variant: a failed send leaves the notification pending)
finalStatusPending(chanOk, sendOk) == IF chanOk /\ sendOk THEN "sent" ELSE "pending"

finalStatus(chanOk, sendOk) == IF chanOk /\ sendOk THEN "sent" ELSE "failed"

\* The worker takes job j and fetches its notification:
\* notificationService.findById(notificationId), which passes the id only.
\* Then deliver resolves the channel and checks isAvailable().
WorkerFetch(j, dbOk) ==
    LET r  == findById(store, j, Undefined, dbOk)
        ch == r.value.channel
    IN
    /\ jobs[j].state = "waiting"
    /\ worker = "running"
    /\ Cardinality(Active) < Concurrency
    /\ started' = [started EXCEPT ![j] = @ + 1]
    /\ jobs' = [jobs EXCEPT ![j] =
         IF ~r.ok THEN jobThrown(@, [code |-> r.code, by |-> "findById"])
         ELSE IF channelFound(ch) /\ isAvailable(ch)
              THEN [@ EXCEPT !.state = "active", !.pc = "send",
                             !.nchan = ch, !.chanOk = TRUE,
                             !.ctx = jobs[j].correlationId,
                             !.failedReason = NoError]
              ELSE [@ EXCEPT !.state = "active", !.pc = "write",
                             !.nchan = ch, !.chanOk = FALSE,
                             !.ctx = jobs[j].correlationId,
                             !.failedReason = NoError]]
    /\ UNCHANGED <<store, nextId, setup, callers, als, worker, post, api, postResp, corrLog, posts, sends,
                   lastWrite, rateVars, lastCall>>

\* const sendResult = await channel.send(notification)
WorkerSend(j, outcome) ==
    /\ jobs[j].state = "active"
    /\ jobs[j].pc = "send"
    /\ outcome \in sendOutcomes(jobs[j].nchan)
    /\ sends' = [sends EXCEPT ![j] = @ + 1]
    /\ jobs' = [jobs EXCEPT ![j] = [@ EXCEPT !.pc = "write", !.sendOk = outcome]]
    /\ UNCHANGED <<store, nextId, setup, callers, als, worker, post, api, postResp, corrLog, posts, started,
                   lastWrite, rateVars, lastCall>>

\* await this.writer.updateStatus(notification.id, finalStatus): the
\* updateMany.  A database error or a count of 0 makes updateStatus, and so
\* deliver, return a failure at once; the handler throws.
WorkerWrite(j, dbOk) ==
    /\ jobs[j].state = "active"
    /\ jobs[j].pc = "write"
    /\ IF dbOk /\ updateManyCount(store, j, Undefined) > 0
       THEN /\ store' = updateMany(store, j, Undefined,
                                   finalStatus(jobs[j].chanOk, jobs[j].sendOk))
            /\ lastWrite' = [lastWrite EXCEPT ![j] =
                                 finalStatus(jobs[j].chanOk, jobs[j].sendOk)]
            /\ jobs' = [jobs EXCEPT ![j].pc = "reread"]
       ELSE /\ jobs' = [jobs EXCEPT ![j] =
                 handlerEnds(@, deliverResult(jobs[j].chanOk, jobs[j].sendOk,
                     updateStatus(store, j, "failed", Undefined, dbOk, dbOk).res.code))]
            /\ UNCHANGED <<store, lastWrite>>
    /\ sends' = [sends EXCEPT ![j] = IF jobs'[j].state = "active" THEN @ ELSE 0]
    /\ UNCHANGED <<nextId, setup, callers, als, worker, post, api, postResp, corrLog, posts, started,
                   rateVars, lastCall>>

\* updateStatus's findFirst, then deliver returns: a failure unless the
\* channel was available, the send succeeded and updateStatus succeeded.
WorkerReread(j, dbOk) ==
    LET r == findById(store, j, Undefined, dbOk) IN
    /\ jobs[j].state = "active"
    /\ jobs[j].pc = "reread"
    /\ jobs' = [jobs EXCEPT ![j] =
         handlerEnds(@, deliverResult(jobs[j].chanOk, jobs[j].sendOk, r.code))]
    /\ sends' = [sends EXCEPT ![j] = 0]
    /\ UNCHANGED <<store, nextId, setup, callers, als, worker, post, api, postResp, corrLog, posts, started,
                   lastWrite, rateVars, lastCall>>

\* process.on("SIGTERM" / "SIGINT", () => void shutdown(signal)): the first
\* signal calls worker.close(), which stops the worker from taking jobs; a
\* further signal awaits the same close.
Signal ==
    /\ worker \in {"running", "closing"}
    /\ worker' = "closing"
    /\ UNCHANGED <<store, nextId, setup, callers, als, jobs, post, api, postResp, corrLog, posts,
                   started, sends, lastWrite, rateVars, lastCall>>

\* await worker.close() returns once no job is being processed; then
\* process.exit(0).
\* (faulty variant: the exit does not await the close)
WorkerExitBad ==
    /\ worker = "closing"
    /\ worker' = "exited"
    /\ UNCHANGED <<store, nextId, setup, callers, als, jobs, post, api, postResp, corrLog, posts,
                   started, sends, lastWrite, rateVars, lastCall>>

WorkerExit ==
    /\ worker = "closing"
    /\ Active = {}
    /\ worker' = "exited"
    /\ UNCHANGED <<store, nextId, setup, callers, als, jobs, post, api, postResp, corrLog, posts,
                   started, sends, lastWrite, rateVars, lastCall>>

\* ------------------------------------------- retry and delete endpoints
\* Both first call notificationService.findById(id, userId); the service's
\* findById takes the id only.
ApiFind(op, id, u, dbOk) ==
    /\ api.pc = "idle"
    /\ op \in {"retry", "delete"}
    /\ api' = IF findById(store, id, Undefined, dbOk).ok
              THEN [pc |-> "found", op |-> op, id |-> id, userId |-> u]
              ELSE IdleApi
    /\ UNCHANGED <<store, nextId, setup, callers, als, worker, jobs, post, postResp, corrLog, posts,
                   started, sends, lastWrite, rateVars, lastCall>>

\* notificationService.retry(id, userId): writer.updateStatus(id, "pending"),
\* the updateMany.
ApiRetryWrite(dbOk) ==
    /\ api.pc = "found"
    /\ api.op = "retry"
    /\ IF dbOk /\ updateManyCount(store, api.id, Undefined) > 0
       THEN /\ store' = updateMany(store, api.id, Undefined, "pending")
            /\ lastWrite' = [lastWrite EXCEPT ![api.id] = "pending"]
            /\ api' = [api EXCEPT !.pc = "wrote"]
       ELSE /\ api' = IdleApi
            /\ UNCHANGED <<store, lastWrite>>
    /\ UNCHANGED <<nextId, setup, callers, als, worker, jobs, post, postResp, corrLog, posts, started,
                   sends, rateVars, lastCall>>

\* updateStatus's findFirst, then the response.
ApiRetryRead(dbOk) ==
    /\ api.pc = "wrote"
    /\ api' = IdleApi
    /\ UNCHANGED <<store, nextId, setup, callers, als, worker, jobs, post, postResp, corrLog, posts,
                   started, sends, lastWrite, rateVars, lastCall>>

\* notificationService.markAsDeleted(id, userId): calls writer.delete with
\* the id only (NotificationService.test.ts: writer.delete toHaveBeenCalledWith
\* the id).
markAsDeleted(st, id, userId, dbOk) == delete(st, id, Undefined, dbOk)

ApiDelete(dbOk) ==
    /\ api.pc = "found"
    /\ api.op = "delete"
    /\ store' = markAsDeleted(store, api.id, api.userId, dbOk).store
    /\ api' = IdleApi
    /\ UNCHANGED <<nextId, setup, callers, als, worker, jobs, post, postResp, corrLog, posts, started,
                   sends, lastWrite, rateVars, lastCall>>

Next ==
    \/ \E u \in Posters, ch \in Channels, k \in Keys, h \in PostedHeaders,
          valid \in BOOLEAN, dbOk \in BOOLEAN :
          PostCreate(u, ch, k, h, valid, dbOk)
    \/ \E qOk \in BOOLEAN : PostEnqueue(qOk)
    \/ \E dbOk \in BOOLEAN : PostRollback(dbOk)
    \/ \E dbOk \in BOOLEAN : PostRollbackRead(dbOk)
    \/ \E j \in Ids, dbOk \in BOOLEAN : WorkerFetch(j, dbOk)
    \/ \E j \in Ids, outcome \in BOOLEAN : WorkerSend(j, outcome)
    \/ \E j \in Ids, dbOk \in BOOLEAN : WorkerWrite(j, dbOk)
    \/ \E j \in Ids, dbOk \in BOOLEAN : WorkerReread(j, dbOk)
    \/ \E op \in {"retry", "delete"}, id \in IdArgs, u \in Users,
          dbOk \in BOOLEAN : ApiFind(op, id, u, dbOk)
    \/ \E dbOk \in BOOLEAN : ApiRetryWrite(dbOk)
    \/ \E dbOk \in BOOLEAN : ApiRetryRead(dbOk)
    \/ \E dbOk \in BOOLEAN : ApiDelete(dbOk)

Spec == Init /\ [][Next]_vars

\* Admission, queue and worker with the worker receiving termination
\* signals, in the deployed wiring (container.ts).
ShutdownInit ==
    /\ PipeInit
    /\ setup = [registered |-> Channels, emailOk |-> TRUE, webhookOk |-> TRUE]
    /\ RateInit
    /\ lastCall = NoCall

WorkerStep ==
    \/ \E j \in Ids, outcome \in BOOLEAN : WorkerSend(j, outcome)
    \/ \E j \in Ids, dbOk \in BOOLEAN : WorkerWrite(j, dbOk)
    \/ \E j \in Ids, dbOk \in BOOLEAN : WorkerReread(j, dbOk)

ShutdownNext ==
    \/ \E u \in Posters, ch \in Channels, k \in Keys, h \in PostedHeaders,
          valid \in BOOLEAN, dbOk \in BOOLEAN :
          PostCreate(u, ch, k, h, valid, dbOk)
    \/ \E qOk \in BOOLEAN : PostEnqueue(qOk)
    \/ \E dbOk \in BOOLEAN : PostRollback(dbOk)
    \/ \E dbOk \in BOOLEAN : PostRollbackRead(dbOk)
    \/ \E j \in Ids, dbOk \in BOOLEAN : WorkerFetch(j, dbOk)
    \/ WorkerStep
    \/ Signal
    \/ WorkerExit

ShutdownSpec == ShutdownInit /\ [][ShutdownNext]_vars

\* Admission, queue and worker for requests with and without an
\* X-Correlation-ID header.
CorrNext ==
    \/ \E u \in Posters, ch \in Channels, k \in Keys, h \in Headers,
          valid \in BOOLEAN, dbOk \in BOOLEAN :
          PostCreate(u, ch, k, h, valid, dbOk)
    \/ \E qOk \in BOOLEAN : PostEnqueue(qOk)
    \/ \E dbOk \in BOOLEAN : PostRollback(dbOk)
    \/ \E dbOk \in BOOLEAN : PostRollbackRead(dbOk)
    \/ \E j \in Ids, dbOk \in BOOLEAN : WorkerFetch(j, dbOk)
    \/ WorkerStep

CorrSpec == ShutdownInit /\ [][CorrNext]_vars

\* Every awaited call of a delivery in flight returns, and the exit that
\* follows worker.close() is taken.
FairShutdownSpec ==
    ShutdownSpec /\ WF_vars(WorkerStep) /\ WF_vars(WorkerExit)

\* ------------------------------------------- the rate limiter on its own
\* A request that stops at the admission gate or at validation: it changes
\* the limiter only.
Admit(key) ==
    /\ RateStep(key, "window", 0)
    /\ UNCHANGED <<pipeVars>>

\* The same request, keeping the sliding-window history instead.
AdmitLogged(key) ==
    /\ RateStep(key, "log", 0)
    /\ UNCHANGED <<pipeVars>>

\* Redis keys whose TTL has run out are gone.  The key of a past bucket is
\* never read again (the bucket is part of its name), so it is dropped as
\* soon as its bucket is over rather than one second later.
expired(r, t) ==
    [rk \in DOMAIN r |-> IF r[rk].count > 0 /\ (r[rk].exp <= t \/ rk[2] < bucketOf(t))
                         THEN [count |-> 0, exp |-> 0] ELSE r[rk]]

Tick ==
    /\ now + TickStep <= MaxTime
    /\ now' = now + TickStep
    /\ redis' = expired(redis, now')
    /\ admitLog' = [k \in Keys |-> LogPrune(admitLog[k], now')]
    /\ UNCHANGED <<pipeVars, redisUp, mem, win, lastCall>>

\* Redis becomes unreachable, or reachable again.
RedisFlap ==
    /\ redisUp' = ~redisUp
    /\ UNCHANGED <<pipeVars, now, redis, mem, admitLog, win, lastCall>>

RateSpecInit ==
    /\ PipeInit
    /\ setup = [registered |-> Channels, emailOk |-> TRUE, webhookOk |-> TRUE]
    /\ RateInit
    /\ lastCall = NoCall

RateNext ==
    \/ \E k \in Keys : Admit(k)
    \/ Tick
    \/ RedisFlap

\* --------------------------------------------- the repository on its own
\* A table of two notifications of any owners and statuses, and callers that
\* invoke the repository directly with any id and tenant.
RepoIds == {1, 2}
RepoIdArgs == RepoIds \cup {0}
RepoRows == {NoRow} \cup
            {[Row(u, ch, s) EXCEPT !.readAt = ra] :
                u \in Users, ch \in {"email"}, s \in Statuses,
                ra \in {"-", "read"}}

RepoInit ==
    /\ callers = NoCallers
    /\ als = NoAls
    /\ store \in [RepoIds -> RepoRows]
    /\ nextId = 3
    /\ worker = "running"
    /\ setup = [registered |-> Channels, emailOk |-> TRUE, webhookOk |-> TRUE]
    /\ jobs = [i \in Ids |-> NoJob]
    /\ post = IdlePost
    /\ api = IdleApi
    /\ postResp = [i \in Ids |-> "none"]
    /\ corrLog = [i \in Ids |-> NoCorr]
    /\ posts = 0
    /\ started = [i \in Ids |-> 0]
    /\ sends = [i \in Ids |-> 0]
    /\ lastWrite = [i \in Ids |-> "-"]
    /\ RateInit
    /\ lastCall = NoCall

RepoUpdateStatus(id, status, userId, dbOk1, dbOk2) ==
    LET r == updateStatus(store, id, status, userId, dbOk1, dbOk2) IN
    /\ store' = r.store
    /\ lastCall' = [NoCall EXCEPT !.op = "updateStatus", !.id = id,
                       !.userId = userId, !.status = status, !.ran = dbOk1,
                       !.code = r.res.code, !.value = r.res.value,
                       !.pre = store]
    /\ UNCHANGED <<nextId, setup, callers, als, worker, jobs, post, api, postResp, corrLog, posts, started,
                   sends, lastWrite, rateVars>>

\* The repository's reads and delete, called directly.
RepoCall(call) ==
    /\ lastCall' = call
    /\ UNCHANGED <<nextId, setup, callers, als, worker, jobs, post, api, postResp, corrLog, posts, started,
                   sends, lastWrite, rateVars>>

RepoFindById(id, userId, dbOk) ==
    LET r == findById(store, id, userId, dbOk) IN
    /\ UNCHANGED store
    /\ RepoCall([NoCall EXCEPT !.op = "findById", !.id = id, !.userId = userId,
                    !.ran = dbOk, !.code = r.code, !.value = r.value,
                    !.pre = store])

RepoDelete(id, userId, dbOk) ==
    LET r == delete(store, id, userId, dbOk) IN
    /\ store' = r.store
    /\ RepoCall([NoCall EXCEPT !.op = "delete", !.id = id, !.userId = userId,
                    !.ran = dbOk, !.code = r.res.code, !.pre = store])

\* GET /api/notifications: notificationService.findAll(userId); the service's
\* findAll takes no argument and calls reader.findAll().
listRoute(st, userId, dbOk) ==
    IF dbOk THEN [http |-> 200, rows |-> findAll(st)]
    ELSE [http |-> statusCode("DATABASE_ERROR"), rows |-> {}]

RepoListRoute(userId, dbOk) ==
    LET r == listRoute(store, userId, dbOk) IN
    /\ UNCHANGED store
    /\ RepoCall([NoCall EXCEPT !.op = "listRoute", !.userId = userId,
                    !.ran = dbOk, !.rows = r.rows, !.http = r.http,
                    !.pre = store])

\* POST /api/notifications/[id]/retry run without interruption: findById,
\* then retry; both service methods take the id only.
retryRoute(st, id, userId, dbOk1, dbOk2, dbOk3) ==
    LET f == findById(st, id, Undefined, dbOk1)
        u == updateStatus(st, id, "pending", Undefined, dbOk2, dbOk3)
    IN  IF ~f.ok THEN [store |-> st, http |-> statusCode(f.code)]
        ELSE [store |-> u.store, http |-> statusCode(u.res.code)]

RepoRetryRoute(id, userId, dbOk1, dbOk2, dbOk3) ==
    LET r == retryRoute(store, id, userId, dbOk1, dbOk2, dbOk3) IN
    /\ store' = r.store
    /\ RepoCall([NoCall EXCEPT !.op = "retryRoute", !.id = id,
                    !.userId = userId, !.ran = dbOk1 /\ dbOk2 /\ dbOk3,
                    !.http = r.http, !.pre = store])

\* DELETE /api/notifications/[id] run without interruption: findById, then
\* markAsDeleted.
deleteRoute(st, id, userId, dbOk1, dbOk2) ==
    LET f == findById(st, id, Undefined, dbOk1)
        d == markAsDeleted(st, id, userId, dbOk2)
    IN  IF ~f.ok THEN [store |-> st, http |-> statusCode(f.code)]
        ELSE [store |-> d.store, http |-> statusCode(d.res.code)]

RepoDeleteRoute(id, userId, dbOk1, dbOk2) ==
    LET r == deleteRoute(store, id, userId, dbOk1, dbOk2) IN
    /\ store' = r.store
    /\ RepoCall([NoCall EXCEPT !.op = "deleteRoute", !.id = id,
                    !.userId = userId, !.ran = dbOk1 /\ dbOk2,
                    !.http = r.http, !.pre = store])

\* markAllRead / markAllUnread of the repository, called directly.
RepoMarkAll(action, userId, dbOk) ==
    LET r == IF action = "mark_all_read" THEN markAllRead(store, userId, dbOk)
             ELSE markAllUnread(store, userId, dbOk)
    IN
    /\ store' = r.store
    /\ RepoCall([NoCall EXCEPT !.op = action, !.userId = userId, !.ran = dbOk,
                    !.code = r.res.code, !.pre = store])

\* PATCH /api/notifications: notificationService.markAllRead(userId) or
\* markAllUnread(userId); the service's methods take no argument and call
\* writer.markAllRead() / writer.markAllUnread().
markAllRoute(st, action, userId, dbOk) ==
    LET r == IF action = "mark_all_read" THEN markAllRead(st, Undefined, dbOk)
             ELSE markAllUnread(st, Undefined, dbOk)
    IN  [store |-> r.store, http |-> statusCode(r.res.code)]

RepoMarkAllRoute(action, userId, dbOk) ==
    LET r == markAllRoute(store, action, userId, dbOk) IN
    /\ store' = r.store
    /\ RepoCall([NoCall EXCEPT !.op = "markAllRoute", !.userId = userId,
                    !.ran = dbOk, !.http = r.http, !.pre = store])

BulkActions == {"mark_all_read", "mark_all_unread"}

RepoNext ==
    \/ \E a \in BulkActions, u \in Users, dbOk \in BOOLEAN :
          RepoMarkAll(a, u, dbOk)
    \/ \E a \in BulkActions, u \in Users, dbOk \in BOOLEAN :
          RepoMarkAllRoute(a, u, dbOk)
    \/ \E id \in RepoIdArgs, s \in Statuses, u \in Users \cup {Undefined},
          dbOk1 \in BOOLEAN, dbOk2 \in BOOLEAN :
          RepoUpdateStatus(id, s, u, dbOk1, dbOk2)
    \/ \E id \in RepoIdArgs, u \in Users \cup {Undefined}, dbOk \in BOOLEAN :
          RepoFindById(id, u, dbOk)
    \/ \E id \in RepoIdArgs, u \in Users \cup {Undefined}, dbOk \in BOOLEAN :
          RepoDelete(id, u, dbOk)
    \/ \E u \in Users, dbOk \in BOOLEAN : RepoListRoute(u, dbOk)
    \/ \E id \in RepoIdArgs, u \in Users, dbOk1 \in BOOLEAN, dbOk2 \in BOOLEAN,
          dbOk3 \in BOOLEAN : RepoRetryRoute(id, u, dbOk1, dbOk2, dbOk3)
    \/ \E id \in RepoIdArgs, u \in Users, dbOk1 \in BOOLEAN, dbOk2 \in BOOLEAN :
          RepoDeleteRoute(id, u, dbOk1, dbOk2)

RepoSpec == RepoInit /\ [][RepoNext]_vars

RateSpec == RateSpecInit /\ [][RateNext]_vars

\* Redis reachable throughout: the fixed-window counter alone.
BurstNext ==
    \/ \E k \in Keys : AdmitLogged(k)
    \/ Tick

BurstSpec == RateSpecInit /\ [][BurstNext]_vars

\* ------------------------------------ concurrent calls of isRateLimited
\* Several requests call isRateLimited(key) at once, Redis reachable.  Each
\* call is: rk = redisKey(key) (reads Date.now()); count = await
\* redis.incr(rk); if (count === 1) await redis.expire(rk, WINDOW_S + 1);
\* return count > MAX.  Each Redis command is one step.
ConcKey == "ip1"

\* (faulty variant: the increment is lost once the counter holds MAX - 1)
incrBad(r, rk) ==
    [r EXCEPT ![rk].count = IF @ = MAX - 1 THEN @ ELSE @ + 1]

\* redis.incr(rk): atomic in Redis
incr(r, rk) == [r EXCEPT ![rk].count = @ + 1]

\* const rk = redisKey(key)
ConcStart(p) ==
    /\ callers.proc[p].pc = "idle"
    /\ callers' = [callers EXCEPT !.proc[p] =
                      [pc |-> "incr", rb |-> bucketOf(now), count |-> 0]]
    /\ UNCHANGED <<store, nextId, setup, als, worker, jobs, post, api,
                   postResp, corrLog, posts, started, sends, lastWrite,
                   rateVars, lastCall>>

\* const count = await redis.incr(rk).  The value decides the call's answer
\* (count > MAX), so the history records the admission here.
ConcIncr(p) ==
    LET b  == callers.proc[p].rb
        rk == <<ConcKey, b>>
        r2 == incr(redis, rk)
        c  == r2[rk].count
    IN
    /\ callers.proc[p].pc = "incr"
    /\ redis[rk].count < MaxCalls
    /\ redis' = r2
    /\ callers' = [callers EXCEPT
          !.proc[p] = [pc |-> IF c = 1 THEN "expire" ELSE "return",
                       rb |-> b, count |-> c],
          !.hist[b] = [obs |-> @.obs + 1, vals |-> @.vals \cup {c},
                       adm |-> @.adm + (IF c > MAX THEN 0 ELSE 1),
                       obsAll |-> @.obsAll + 1, valsAll |-> @.valsAll \cup {c},
                       admAll |-> @.admAll + (IF c > MAX THEN 0 ELSE 1)]]
    /\ UNCHANGED <<store, nextId, setup, als, worker, jobs, post, api,
                   postResp, corrLog, posts, started, sends, lastWrite,
                   now, redisUp, mem, admitLog, win, lastCall>>

\* await redis.expire(rk, WINDOW_S + 1)
ConcExpire(p) ==
    LET rk == <<ConcKey, callers.proc[p].rb>> IN
    /\ callers.proc[p].pc = "expire"
    /\ redis' = [redis EXCEPT ![rk].exp = IF redis[rk].count > 0
                                          THEN now + WINDOW_S + 1 ELSE @]
    /\ callers' = [callers EXCEPT !.proc[p].pc = "return"]
    /\ UNCHANGED <<store, nextId, setup, als, worker, jobs, post, api,
                   postResp, corrLog, posts, started, sends, lastWrite,
                   now, redisUp, mem, admitLog, win, lastCall>>

\* return count > MAX
ConcReturn(p) ==
    /\ callers.proc[p].pc = "return"
    /\ callers' = [callers EXCEPT !.proc[p] = IdleCaller]
    /\ lastCall' = [NoCall EXCEPT !.op = "isRateLimited", !.key = ConcKey,
                       !.backend = "redis",
                       !.limited = callers.proc[p].count > MAX]
    /\ UNCHANGED <<store, nextId, setup, als, worker, jobs, post, api,
                   postResp, corrLog, posts, started, sends, lastWrite,
                   rateVars>>

\* Redis removes a key when its TTL has run out; a key on which EXPIRE has
\* not run yet has no TTL.
ttlExpired(r, t) ==
    {rk \in DOMAIN r : r[rk].count > 0 /\ r[rk].exp > 0 /\ r[rk].exp <= t}

\* Time passes while calls are in flight.
ConcTick ==
    /\ now + TickStep <= MaxTime
    /\ now' = now + TickStep
    /\ redis' = [rk \in DOMAIN redis |->
                    IF rk \in ttlExpired(redis, now')
                    THEN [count |-> 0, exp |-> 0] ELSE redis[rk]]
    /\ callers' = [callers EXCEPT !.hist =
          [b \in Buckets |->
              IF <<ConcKey, b>> \in ttlExpired(redis, now')
              THEN [@[b] EXCEPT !.obs = 0, !.vals = {}, !.adm = 0]
              ELSE @[b]]]
    /\ UNCHANGED <<store, nextId, setup, als, worker, jobs, post, api,
                   postResp, corrLog, posts, started, sends, lastWrite,
                   redisUp, mem, admitLog, win, lastCall>>

ConcNext ==
    \/ \E p \in Procs : ConcStart(p)
    \/ \E p \in Procs : ConcIncr(p)
    \/ \E p \in Procs : ConcExpire(p)
    \/ \E p \in Procs : ConcReturn(p)
    \/ ConcTick

ConcSpec == RateSpecInit /\ [][ConcNext]_vars

\* ------------------------------------------ the create endpoint at the limit
\* Requests of one client, most of them stopping after the admission gate,
\* so that the create path is also taken with the window used up.
AdmissionNext ==
    \/ \E k \in Keys : Admit(k)
    \/ \E u \in Posters, ch \in Channels, k \in Keys, h \in PostedHeaders,
          valid \in BOOLEAN, dbOk \in BOOLEAN :
          PostCreate(u, ch, k, h, valid, dbOk)
    \/ \E qOk \in BOOLEAN : PostEnqueue(qOk)
    \/ \E dbOk \in BOOLEAN : PostRollback(dbOk)
    \/ \E dbOk \in BOOLEAN : PostRollbackRead(dbOk)

AdmissionSpec == RateSpecInit /\ [][AdmissionNext]_vars

\* ------------------------------------------- the correlation context
\* Requests and worker jobs of one process, each a chain of awaits that may
\* be suspended while another runs.  correlationStorage is an
\* AsyncLocalStorage: run(id, fn) binds id for the chain of fn only, and
\* getStore() returns the value bound for the chain that calls it.
\* (faulty variant: one process-wide variable holds the id)
getCorrelationIdBad(a, c) == IF a.last = "-" THEN "no-context" ELSE a.last

\* getCorrelationId: correlationStorage.getStore() ?? "no-context"
getCorrelationId(a, c) == IF a.store[c] = "-" THEN "no-context" ELSE a.store[c]

\* withCorrelationId(idFromHeader, fn): correlationStorage.run(id, fn)
CtxRun(c, h) ==
    /\ als.store[c] = "-"
    /\ als.runs < MaxRuns
    /\ als' = [als EXCEPT !.store[c] = withCorrelationId(h, als.runs + 1),
                          !.last = withCorrelationId(h, als.runs + 1),
                          !.runs = @ + 1,
                          !.got[c] = "-"]
    /\ UNCHANGED <<store, nextId, setup, callers, worker, jobs, post, api,
                   postResp, corrLog, posts, started, sends, lastWrite,
                   rateVars, lastCall>>

\* A getCorrelationId() call made by chain c: inside its withCorrelationId
\* (a log line of the handler) or outside any.
CtxGet(c) ==
    /\ als' = [als EXCEPT !.got[c] = getCorrelationId(als, c)]
    /\ UNCHANGED <<store, nextId, setup, callers, worker, jobs, post, api,
                   postResp, corrLog, posts, started, sends, lastWrite,
                   rateVars, lastCall>>

\* fn returns: the chain leaves its context.
CtxEnd(c) ==
    /\ als.store[c] # "-"
    /\ als' = [als EXCEPT !.store[c] = "-", !.got[c] = "-"]
    /\ UNCHANGED <<store, nextId, setup, callers, worker, jobs, post, api,
                   postResp, corrLog, posts, started, sends, lastWrite,
                   rateVars, lastCall>>

CtxNext ==
    \/ \E c \in Contexts, h \in Headers : CtxRun(c, h)
    \/ \E c \in Contexts : CtxGet(c)
    \/ \E c \in Contexts : CtxEnd(c)

CtxSpec == RateSpecInit /\ [][CtxNext]_vars

\* ----------------------------------------------- the pipeline, no faults
\* The create path, the worker and the retry endpoint when every database
\* query and every queue call succeeds (a channel send may still fail), with
\* the queue and the worker scheduled fairly: a waiting job is taken, every
\* awaited call of a handler or request in progress returns.  Whether a
\* client sends a request is up to the client.
LiveNext ==
    \/ \E u \in Posters, ch \in Channels, k \in Keys, h \in PostedHeaders,
          valid \in BOOLEAN : PostCreate(u, ch, k, h, valid, TRUE)
    \/ PostEnqueue(TRUE)
    \/ \E j \in Ids : WorkerFetch(j, TRUE)
    \/ \E j \in Ids, outcome \in BOOLEAN : WorkerSend(j, outcome)
    \/ \E j \in Ids : WorkerWrite(j, TRUE)
    \/ \E j \in Ids : WorkerReread(j, TRUE)
    \/ \E id \in IdArgs, u \in Users : ApiFind("retry", id, u, TRUE)
    \/ ApiRetryWrite(TRUE)
    \/ ApiRetryRead(TRUE)

LiveSpec ==
    /\ Init
    /\ [][LiveNext]_vars
    /\ WF_vars(PostEnqueue(TRUE))
    /\ WF_vars(\E j \in Ids : WorkerFetch(j, TRUE))
    /\ WF_vars(WorkerStep)
    /\ WF_vars(ApiRetryWrite(TRUE))
    /\ WF_vars(ApiRetryRead(TRUE))

\* =================================================================== claims
\* Steps of deliver for job j, recognised by the job's position.
DeliverCommits(j) ==
    jobs[j].state = "active" /\ jobs[j].pc = "write" /\ jobs'[j].pc = "reread"

DeliverReturns(j) == jobs[j].state = "active" /\ jobs'[j].state # "active"

RetryCommits(n) ==
    api.pc = "found" /\ api.op = "retry" /\ api.id = n /\ api'.pc = "wrote"

RollbackCommits(n) ==
    post.pc = "rollback" /\ post.nid = n /\ post'.pc = "rollbackRead"

StatusChanges(n) ==
    store[n].present /\ store'[n].present /\ store'[n].status # store[n].status

Expected(j) == IF jobs[j].chanOk /\ jobs[j].sendOk THEN "sent" ELSE "failed"

\* C1 (as stated): when deliver returns, the stored status of the
\* notification is sent or failed, never pending, and it is sent iff the
\* channel was registered and available and send succeeded.
C1_Original ==
    [][\A j \in Ids :
         (DeliverReturns(j) /\ store'[j].present) =>
            /\ store'[j].status \in {"sent", "failed"}
            /\ (store'[j].status = "sent") <=> (jobs[j].chanOk /\ jobs[j].sendOk)
      ]_vars

\* C1 (amended): the status deliver commits is sent or failed, never
\* pending, and is sent iff the channel was registered and available and send
\* succeeded; when deliver returns after its write was committed the stored
\* status is that value unless a concurrent retry has reset it to pending or
\* the record was deleted; when the write fails (database error, no row) the
\* store is left as it was.
C1_DeliverWritesTerminal ==
    [][\A j \in Ids :
         /\ DeliverCommits(j) => store'[j].status = Expected(j)
         /\ (DeliverReturns(j) /\ jobs[j].pc = "reread" /\ store'[j].present)
               => store'[j].status \in {Expected(j), "pending"}
         /\ (DeliverReturns(j) /\ jobs[j].pc = "write") => store' = store
      ]_vars

C1_Witness ==
    \E j \in Ids : /\ jobs[j].state = "completed"
                   /\ jobs[j].attemptsMade = 1
                   /\ store[j].present
                   /\ store[j].status = "sent"

\* C2 (as stated): every change of a stored status is pending -> sent,
\* pending -> failed or failed -> pending.
C2_Original ==
    [][\A n \in Ids :
         StatusChanges(n) =>
            <<store[n].status, store'[n].status>> \in
               {<<"pending", "sent">>, <<"pending", "failed">>,
                <<"failed", "pending">>}
      ]_vars

\* C2 (amended): every change of a stored status is written by deliver (to
\* sent or failed), by retry (to pending) or by the enqueue rollback (to
\* failed), whatever the prior status was; deliver and the rollback never
\* write pending, retry never writes sent or failed.
C2_WritersAndTargets ==
    [][\A n \in Ids :
         StatusChanges(n) =>
            \/ DeliverCommits(n) /\ store'[n].status \in {"sent", "failed"}
            \/ RetryCommits(n) /\ store'[n].status = "pending"
            \/ RollbackCommits(n) /\ store'[n].status = "failed"
      ]_vars

C2_Witness ==
    \E n \in Ids : /\ jobs[n].state = "completed"
                   /\ store[n].present
                   /\ store[n].status = "pending"

\* C3 (as stated): sent is terminal, and failed never becomes sent without
\* passing through pending.
C3_Original ==
    [][\A n \in Ids :
         (store[n].present /\ store'[n].present) =>
            /\ store[n].status = "sent" => store'[n].status = "sent"
            /\ store[n].status = "failed" => store'[n].status # "sent"
      ]_vars

\* C3 (amended): a sent status changes only by an explicit retry (to
\* pending) or, while the job that wrote it is still being attempted because
\* deliver returned a failure after writing sent, by a later attempt of that
\* job (to failed); once the job has completed only retry changes it.  (A
\* failed notification does become sent directly when a later attempt of its
\* job succeeds.)
C3_SentLeftOnlyByRetryOrReattempt ==
    [][\A n \in Ids :
         (StatusChanges(n) /\ store[n].status = "sent") =>
            \/ RetryCommits(n) /\ store'[n].status = "pending"
            \/ /\ DeliverCommits(n)
               /\ jobs[n].attemptsMade >= 1
               /\ store'[n].status = "failed"
      ]_vars

C3_Witness ==
    \E n \in Ids : /\ jobs[n].state = "completed"
                   /\ jobs[n].attemptsMade >= 2
                   /\ lastWrite[n] = "sent"
                   /\ store[n].present
                   /\ store[n].status = "sent"

NoRowMatched(c) ==
    ~ (/\ c.id \in DOMAIN c.pre
       /\ c.pre[c.id].present
       /\ (c.userId = Undefined \/ c.pre[c.id].userId = c.userId))

C5_ZeroRowsIsNotFound ==
    (lastCall.op = "updateStatus" /\ NoRowMatched(lastCall)) =>
        /\ store = lastCall.pre
        /\ lastCall.code # "OK"
        /\ lastCall.ran => lastCall.code = "NOTIFICATION_NOT_FOUND"

C5_Witness ==
    /\ lastCall.op = "updateStatus"
    /\ lastCall.id \in RepoIds
    /\ lastCall.pre[lastCall.id].present
    /\ lastCall.userId \in Users
    /\ lastCall.pre[lastCall.id].userId # lastCall.userId
    /\ lastCall.code = "NOTIFICATION_NOT_FOUND"

\* C6: when enqueueing fails after the notification was persisted, the
\* record is deleted from the store and the caller receives 503; the record
\* no longer exists afterwards.  ("503" is the response given when the
\* rollback call reported success.)
C6_RollbackDeletes ==
    \A n \in Ids : postResp[n] = "503" => ~store[n].present

\* Calls of the last call's key in the window of the store that answered it.
CallsInWindow ==
    IF lastCall.backend = "redis" THEN win[lastCall.key].rc
    ELSE win[lastCall.key].mc

\* Whether every call of that window was answered by the same store.
SameStoreThroughout ==
    IF lastCall.backend = "redis" THEN win[lastCall.key].rp
    ELSE win[lastCall.key].mp

\* C7 (as stated): with MAX = 20 and WINDOW = 60 s, the first 20 calls of
\* a key within a window are admitted and the 21st is rejected; after the
\* window has elapsed the key is admitted again.
C7_Original ==
    lastCall.op = "isRateLimited" =>
        /\ lastCall.limited <=> CallsInWindow > 20
        /\ lastCall.limited =>
              (lastCall.code = "429" /\ lastCall.retryAfter \in 1..61)

\* C7 (amended): the same, provided every call of the window was answered
\* by the same store (Redis reachable for all of them: the window is the
\* 60 s bucket; unreachable for all of them: the window is the 60 s after the
\* first in-memory call).  Calls answered by the other store are not
\* counted.  A rejected call is answered 429 with a Retry-After of 1..61 s.
C7_TwentyPerWindowPerStore ==
    lastCall.op = "isRateLimited" =>
        /\ SameStoreThroughout => (lastCall.limited <=> CallsInWindow > 20)
        /\ lastCall.limited =>
              (lastCall.code = "429" /\ lastCall.retryAfter \in 1..61)

C7_Witness ==
    /\ lastCall.op = "isRateLimited"
    /\ lastCall.backend = "redis"
    /\ win[lastCall.key].rp
    /\ win[lastCall.key].rc = 21
    /\ lastCall.limited
    /\ lastCall.code = "429"
    /\ now >= WINDOW_S

RECURSIVE SumLog(_, _)
SumLog(log, S) ==
    IF S = {} THEN 0
    ELSE LET t == CHOOSE x \in S : TRUE IN log[t] + SumLog(log, S \ {t})

\* C8: the limiter is a sliding window: in every interval of WINDOW
\* seconds, wherever it starts, at most MAX requests of a key are admitted.
\* (admitLog holds the admissions of the WINDOW seconds that end now.)
C8_SlidingWindow ==
    \A k \in Keys : SumLog(admitLog[k], DOMAIN admitLog[k]) <= MAX

Got500(j) ==
    jobs[j].channel = "webhook" /\ jobs[j].chanOk /\ ~jobs[j].sendOk

InApp(j) == jobs[j].channel = "in-app" /\ "in-app" \in setup.registered

LookupFails(j) ==
    jobs[j].state = "waiting" /\ started'[j] # started[j] /\ jobs'[j].state # "active"

Requeued(j) ==
    /\ jobs'[j].attemptsMade = jobs[j].attemptsMade + 1
    /\ jobs'[j].state = IF jobs[j].attemptsMade + 1 < 3 THEN "waiting" ELSE "failed"
    /\ jobs'[j].failedReason.code \in
          {"DATABASE_ERROR", "NOTIFICATION_NOT_FOUND", "CHANNEL_UNAVAILABLE"}

Owned(c) ==
    /\ c.id \in DOMAIN c.pre
    /\ c.pre[c.id].present
    /\ c.pre[c.id].userId = c.userId

\* C13: the retry endpoint, for a notification that exists and is owned by
\* the caller, sets the status to pending whatever it was and answers 200;
\* for an id that does not exist or is not owned by the caller it answers 404
\* and changes nothing.  (Requests whose database queries all run.)
C13_RetryEndpoint ==
    (lastCall.op = "retryRoute" /\ lastCall.ran) =>
        IF Owned(lastCall)
        THEN /\ lastCall.http = 200
             /\ store = [lastCall.pre EXCEPT ![lastCall.id].status = "pending"]
        ELSE /\ lastCall.http = 404
             /\ store = lastCall.pre

\* C14: no tenant-facing read returns another tenant's data: findById(id,
\* userId) is NotFound when the notification is absent or owned by another
\* tenant, and the list returned to userId holds only notifications whose
\* userId is the caller's.
C14_TenantReads ==
    /\ (lastCall.op = "findById" /\ lastCall.userId \in Users /\ lastCall.ran) =>
          IF Owned(lastCall)
          THEN lastCall.code = "OK" /\ lastCall.value = lastCall.pre[lastCall.id]
          ELSE lastCall.code = "NOTIFICATION_NOT_FOUND" /\ lastCall.value = NoRow
    /\ lastCall.op = "listRoute" =>
          \A i \in lastCall.rows : lastCall.pre[i].userId = lastCall.userId

\* C15: delete(id, userId) removes exactly the notification with that id
\* owned by userId and returns success; when no such row exists (absent or
\* owned by another tenant) it returns NotFound, the delete endpoint answers
\* 404, and the store is unchanged.
C15_TenantDelete ==
    /\ (lastCall.op = "delete" /\ lastCall.userId \in Users /\ lastCall.ran) =>
          IF Owned(lastCall)
          THEN /\ lastCall.code = "OK"
               /\ store = [lastCall.pre EXCEPT ![lastCall.id] = NoRow]
          ELSE /\ lastCall.code = "NOTIFICATION_NOT_FOUND"
               /\ store = lastCall.pre
    /\ (lastCall.op = "deleteRoute" /\ lastCall.ran /\ ~Owned(lastCall)) =>
          (lastCall.http = 404 /\ store = lastCall.pre)

\* The parts of C13, C14 and C15 that concern the owner and the repository's
\* own tenant filter.
OwnerPathsHold ==
    /\ (lastCall.op = "retryRoute" /\ lastCall.ran /\ Owned(lastCall)) =>
          /\ lastCall.http = 200
          /\ store = [lastCall.pre EXCEPT ![lastCall.id].status = "pending"]
    /\ (lastCall.op = "findById" /\ lastCall.userId \in Users /\ lastCall.ran) =>
          IF Owned(lastCall)
          THEN lastCall.code = "OK" /\ lastCall.value = lastCall.pre[lastCall.id]
          ELSE lastCall.code = "NOTIFICATION_NOT_FOUND" /\ lastCall.value = NoRow
    /\ (lastCall.op = "delete" /\ lastCall.userId \in Users /\ lastCall.ran) =>
          IF Owned(lastCall)
          THEN /\ lastCall.code = "OK"
               /\ store = [lastCall.pre EXCEPT ![lastCall.id] = NoRow]
          ELSE /\ lastCall.code = "NOTIFICATION_NOT_FOUND"
               /\ store = lastCall.pre
    /\ (lastCall.op = "deleteRoute" /\ lastCall.ran /\ Owned(lastCall)) =>
          /\ lastCall.http = 200
          /\ store = [lastCall.pre EXCEPT ![lastCall.id] = NoRow]

\* C16: if no registered channel has the notification's channel name, or
\* that channel is unavailable, deliver invokes no send, issues the write of
\* status failed and returns a CHANNEL_UNAVAILABLE failure (whether or not
\* that write succeeds).
NoUsableChannel(ch) ==
    \/ ch \notin setup.registered
    \/ ch = "email" /\ ~setup.emailOk
    \/ ch = "webhook" /\ ~setup.webhookOk

C17_WriteFailureSurfaces ==
    [][\A j \in Ids :
         (DeliverReturns(j) /\ jobs[j].chanOk) =>
            IF jobs[j].sendOk
            THEN /\ jobs[j].pc = "write" =>
                       /\ store' = store
                       /\ jobs'[j].state \in {"waiting", "failed"}
                 /\ jobs'[j].state # "completed" =>
                       /\ jobs'[j].failedReason.by = "updateStatus"
                       /\ jobs'[j].failedReason.code \in
                             {"DATABASE_ERROR", "NOTIFICATION_NOT_FOUND"}
            ELSE /\ jobs[j].pc \in {"write", "reread"}
                 /\ jobs'[j].state \in {"waiting", "failed"}
                 /\ jobs'[j].failedReason =
                       [code |-> "CHANNEL_UNAVAILABLE", by |-> "send"]
      ]_vars

C17_Witness ==
    \E j \in Ids : /\ jobs[j].state = "waiting"
                   /\ jobs[j].attemptsMade = 1
                   /\ jobs[j].failedReason =
                         [code |-> "DATABASE_ERROR", by |-> "updateStatus"]
                   /\ store[j].present
                   /\ store[j].status = "pending"

ChosenFor(c, h) == IF h = NoHeader THEN c \notin Headers \cup {"-"} ELSE c = h

C19_CorrelationId ==
    \A n \in Ids :
        corrLog[n].header # "-" =>
           /\ store[n].present => ChosenFor(store[n].correlationId, corrLog[n].header)
           /\ postResp[n] = "202" =>
                 /\ ChosenFor(corrLog[n].response, corrLog[n].header)
                 /\ jobs[n].state # "none"
                 /\ jobs[n].correlationId = corrLog[n].response
                 /\ store[n].present =>
                       store[n].correlationId = corrLog[n].response
           /\ jobs[n].state = "active" =>
                 /\ postResp[n] = "202"
                 /\ jobs[n].ctx = corrLog[n].response
           /\ jobs[n].state # "active" => jobs[n].ctx = "-"

C19_Witness ==
    \E n \in Ids : /\ corrLog[n] = [header |-> "corr-1", response |-> "corr-1"]
                   /\ jobs[n].state = "active"
                   /\ jobs[n].attemptsMade = 2
                   /\ jobs[n].ctx = "corr-1"
                   /\ store[n].present
                   /\ store[n].correlationId = "corr-1"

\* C20: with Redis unreachable isRateLimited and getRateLimitState answer
\* from the in-memory limiter: per key it admits the first 20 calls of a
\* window, rejects every further call until resetAt, and starts a new
\* window (count 1, admitted) at the first call at or after resetAt; Redis
\* state is not touched and a rejected call gets a Retry-After within the
\* window.
MemCall(k) == ~redisUp /\ mem'[k] # mem[k]

C20_MemoryFallback ==
    [][\A k \in Keys :
         /\ (~redisUp /\ lastCall' # lastCall) => mem' # mem
         /\ MemCall(k) =>
               /\ redis' = redis
               /\ lastCall'.op = "isRateLimited"
               /\ lastCall'.backend = "memory"
               /\ IF mem[k].count = 0 \/ now >= mem[k].resetAt
                  THEN /\ mem'[k] = [count |-> 1, resetAt |-> now + 60]
                       /\ ~lastCall'.limited
                  ELSE /\ mem'[k] = [mem[k] EXCEPT !.count = @ + 1]
                       /\ lastCall'.limited <=> mem[k].count >= 20
               /\ lastCall'.limited =>
                     /\ lastCall'.code = "429"
                     /\ lastCall'.retryAfter = mem[k].resetAt - now
                     /\ lastCall'.retryAfter \in 1..60
      ]_vars

C20_Witness ==
    /\ ~redisUp
    /\ lastCall.backend = "memory"
    /\ lastCall.limited
    /\ now >= 60
    /\ \E k \in Keys : mem[k].count = 22 /\ mem[k].resetAt > 60

\* The updateStatus call of deliver for job j returns (its findFirst ran).
UpdateStatusReturns(j) ==
    jobs[j].state = "active" /\ jobs[j].pc = "reread" /\ jobs'[j].state # "active"

\* C21: whenever updateStatus(id, s) returns success the notification it
\* returns has status s, and once its write is committed it does not return
\* NotFound, also when a retry or a delete of the same id runs concurrently.
C21_UpdateStatusAtomic ==
    [][\A j \in Ids :
         (UpdateStatusReturns(j) /\ jobs[j].chanOk /\ jobs[j].sendOk) =>
            /\ jobs'[j].state = "completed" => store[j].status = "sent"
            /\ jobs'[j].failedReason.code # "NOTIFICATION_NOT_FOUND"
      ]_vars

\* C22 (as stated): concurrent isRateLimited calls for the same key and
\* window each observe a distinct counter value, and at most MAX of them
\* return false, in every interleaving.
C22_Original ==
    \A b \in Buckets :
        /\ Cardinality(callers.hist[b].valsAll) = callers.hist[b].obsAll
        /\ callers.hist[b].admAll <= 20

\* C22 (amended): concurrent isRateLimited calls whose INCR Redis executes
\* while the window's key exists each observe a distinct counter value
\* 1, 2, 3, ..., so at most MAX of them return false and two callers never
\* both get the last slot; a call whose INCR is executed after the key has
\* expired (WINDOW_S + 1 seconds after the EXPIRE of the window's first
\* call) starts the counter again at 1.
C22_AtomicIncrement ==
    \A b \in Buckets :
        /\ callers.hist[b].vals = 1..callers.hist[b].obs
        /\ callers.hist[b].obs = redis[<<ConcKey, b>>].count
        /\ callers.hist[b].adm <= 20
        /\ \A p, q \in Procs :
              (/\ p # q
               /\ callers.proc[p].pc \in {"expire", "return"}
               /\ callers.proc[q].pc \in {"expire", "return"}
               /\ callers.proc[p].rb = callers.proc[q].rb
               /\ callers.proc[p].count = callers.proc[q].count)
              => callers.hist[callers.proc[p].rb].obsAll
                    > callers.hist[callers.proc[p].rb].obs

\* Two calls in flight at once on a full window: one got the last slot, the
\* other is rejected.
C22_Witness ==
    \E b \in Buckets :
        /\ callers.hist[b].adm = 20
        /\ callers.hist[b].obs = 21
        /\ callers.proc["r1"] = [pc |-> "return", rb |-> b, count |-> 20]
        /\ callers.proc["r2"] = [pc |-> "return", rb |-> b, count |-> 21]

\* A POST /api/notifications request is answered or reaches its next await.
PostArrives == posts' = posts + 1

OthersUntouched ==
    \A i \in DOMAIN lastCall.pre :
        (lastCall.pre[i].present /\ lastCall.pre[i].userId # lastCall.userId)
           => store[i] = lastCall.pre[i]

\* markAllRead / markAllUnread write readAt only and succeed whenever the
\* query ran, also when no row matched.
BulkWritesReadAtOnly ==
    /\ \A i \in DOMAIN lastCall.pre :
          store[i] = [lastCall.pre[i] EXCEPT !.readAt = store[i].readAt]
    /\ lastCall.ran =>
          IF lastCall.op = "markAllRoute" THEN lastCall.http = 200
          ELSE lastCall.code = "OK"

\* The repository's own writes, called with a tenant's userId, are scoped to
\* that tenant.
RepositoryWritesScoped ==
    /\ (lastCall.op \in {"updateStatus", "delete"} \cup BulkActions
           /\ lastCall.userId \in Users) => OthersUntouched
    /\ lastCall.op \in BulkActions \cup {"markAllRoute"} => BulkWritesReadAtOnly

\* C24: no write issued with userId u changes another tenant's data:
\* updateStatus, delete, markAllRead and markAllUnread issued for u, by the
\* repository called directly or through the service's retry, delete and
\* bulk endpoints, leave every notification of another tenant unchanged;
\* markAllRead / markAllUnread change readAt only and succeed also when no
\* row matches.
C24_TenantWrites ==
    /\ RepositoryWritesScoped
    /\ lastCall.op \in {"retryRoute", "deleteRoute", "markAllRoute"}
          => OthersUntouched

\* C25: the correlation context is scoped to one request or job: with
\* several requests and jobs interleaved in one process, getCorrelationId()
\* called inside one of them returns the id bound for it and never the id of
\* another, and called outside any context it returns "no-context".
C25_ContextScoped ==
    \A c \in Contexts :
        als.got[c] # "-" =>
           /\ als.store[c] = "-" => als.got[c] = "no-context"
           /\ als.store[c] # "-" =>
                 /\ als.got[c] = als.store[c]
                 /\ als.got[c] \notin
                       {als.store[d] : d \in Contexts \ {c}} \ {als.store[c]}

\* Two contexts are live at once with different ids, each has read its own,
\* and a call outside any context got "no-context".
C25_Witness ==
    /\ als.store["req1"] \notin {"-", als.store["job1"]}
    /\ als.store["job1"] # "-"
    /\ als.got["req1"] = als.store["req1"]
    /\ als.got["job1"] = als.store["job1"]
    /\ als.store["req2"] = "-"
    /\ als.got["req2"] = "no-context"
    /\ als.last = als.store["job1"]

C27_PendingEventuallyDelivered ==
    \A n \in Ids :
        (store[n].present /\ store[n].status = "pending")
           ~> (store[n].present /\ store[n].status \in {"sent", "failed"})

\* C28: once the create endpoint has answered, every notification it
\* persisted has a job referencing it or is no longer in the store as
\* pending, also when the compensating write after an enqueue failure fails.
C28_NoPendingOrphan ==
    \A n \in Ids :
        postResp[n] # "none" =>
           \/ jobs[n].state # "none"
           \/ ~(store[n].present /\ store[n].status = "pending")

\* The last attempt of job j ended with the failure of deliver's status
\* write, which deliver returns only when its send had succeeded.
SentThenWriteFailed(j) ==
    jobs[j].state = "waiting" /\ jobs[j].failedReason.by = "updateStatus"

\* An attempt of job j starts and deliver calls channel.send.
AttemptCallsSend(j) ==
    jobs[j].state = "waiting" /\ jobs'[j].state = "active" /\ jobs'[j].pc = "send"

\* C29: within one job, once a channel send has succeeded no later attempt
\* of the job invokes send again, also when the status write that followed
\* the successful send failed.
C29_NoSecondSend ==
    [][\A j \in Ids : SentThenWriteFailed(j) => ~AttemptCallsSend(j)]_vars

\* Notification j was persisted and its row is gone.
Deleted(j) == lastWrite[j] # "-" /\ ~store[j].present

\* An attempt of job j starts (the handler's lookup runs).
AttemptStarts(j) == jobs[j].state = "waiting" /\ started'[j] = started[j] + 1

\* The status write of deliver for job j returns without having committed.
WriteFails(j) ==
    jobs[j].state = "active" /\ jobs[j].pc = "write" /\ jobs'[j].state # "active"

DeletedDuringDeliver ==
    \E j \in Ids :
        /\ Deleted(j)
        /\ jobs[j].state = "waiting"
        /\ jobs[j].failedReason =
              [code |-> "NOTIFICATION_NOT_FOUND", by |-> "updateStatus"]

====
